---- MODULE Spec2Model ----
(***************************************************************************)
(* State-synchronisation model of the chatbot flow builder: the            *)
(* localStorage adapter, the debounced useAutoSave hook, the FlowBuilder   *)
(* editor and the RichCard / CarouselCard node editors.                    *)
(*                                                                         *)
(* JavaScript objects are records of their own properties.  A node's       *)
(* payload (node.data) is an object shared by reference between the        *)
(* FlowBuilder node list, the node component that edits it and every       *)
(* closure that captured it, so payloads live in a heap and are named by   *)
(* reference; serialisation reads the heap at the moment it runs.          *)
(***************************************************************************)
EXTENDS Integers, Sequences, FiniteSets, TLC

VARIABLES
    localStorage,  \* the slot 'chatbot-flow-state' of window.localStorage
    isEditMode,    \* App: useState(true)
    builder,       \* FlowBuilder: "unmounted", "loading" (isLoading) or "ready"
    reloading,     \* window.location.reload() was called, document still alive
    nodes,         \* FlowBuilder: useNodesState, node shells with payload references
    edges,         \* FlowBuilder: useEdgesState
    heap,          \* payload objects, by reference
    editors,       \* mounted node components: local React state, by payload reference
    reads,         \* FileReader reads in flight, with the closure that started them
    timers,        \* pending window.setTimeout callbacks of useAutoSave
    timeoutRef,    \* useAutoSave: timeoutRef.current
    effect,        \* useAutoSave: what the last effect run left behind
    budget,        \* user operations left in this exploration
    burst,         \* history: changes and writes of the current debounce burst
    unsaved,       \* history: edits whose direct patch found no persisted record
    stamps,        \* history: the <<type, Date.now()>> of every addNode call
    last           \* history: the operation that produced this state

vars == <<localStorage, isEditMode, builder, reloading, nodes, edges, heap,
          editors, reads, timers, timeoutRef, effect, budget, burst, unsaved, stamps,
          last>>

(***************************************************************************)
(* Bounds of the exploration.                                              *)
(***************************************************************************)
MaxOps == 4
DebounceTicks == 2
MaxReads == 1
MaxNow == 2

(***************************************************************************)
(* JavaScript values.                                                      *)
(***************************************************************************)
Undefined == "<undefined>"
NullString == "<null>"        \* null where a string is expected
Null == [kind |-> "null"]     \* null where an object is expected

FLOW_STATE_KEY == "chatbot-flow-state"

RICH_CARD == "richCard"
CAROUSEL_CARD == "carouselCard"

\* obj[k] of a JavaScript object: undefined when k is no own property
Get(obj, k) == IF k \in DOMAIN obj THEN obj[k] ELSE Undefined

\* { ...a, ...b }
Spread(a, b) ==
    [k \in (DOMAIN a) \cup (DOMAIN b) |-> IF k \in DOMAIN b THEN b[k] ELSE a[k]]

(***************************************************************************)
(* JSON.stringify / JSON.parse on the values of the flow state.  The text  *)
(* is kept as the document it denotes; a property whose value is           *)
(* undefined is not written.  Text that is no JSON document is "corrupt".  *)
(***************************************************************************)
ScalarKeys == {"id", "title", "description", "imageUrl", "label", "action",
               "type", "source", "target", "sourceHandle", "targetHandle"}

DropUndefined(obj) ==
    [k \in {j \in DOMAIN obj : ~(j \in ScalarKeys /\ obj[j] = Undefined)} |-> obj[k]]

ButtonDoc(b) == DropUndefined(b)

CardDoc(c) ==
    LET d == DropUndefined(c)
    IN  IF "buttons" \in DOMAIN d
        THEN [d EXCEPT !.buttons = [i \in 1..Len(d.buttons) |-> ButtonDoc(d.buttons[i])]]
        ELSE d

PayloadDoc(p) ==
    IF "cards" \in DOMAIN p
    THEN LET d == DropUndefined(p)
         IN  [d EXCEPT !.cards = [i \in 1..Len(d.cards) |-> CardDoc(d.cards[i])]]
    ELSE CardDoc(p)

NodeDoc(n) ==
    LET d == DropUndefined(n) IN [d EXCEPT !.data = PayloadDoc(d.data)]

EdgeDoc(e) == DropUndefined(e)

\* JSON.stringify(flowState) for a flow state whose payloads are values
JSONstringify(fs) ==
    [kind |-> "json",
     doc |-> [nodes |-> [i \in 1..Len(fs.nodes) |-> NodeDoc(fs.nodes[i])],
              edges |-> [i \in 1..Len(fs.edges) |-> EdgeDoc(fs.edges[i])]]]

\* JSON.parse(text): [ok |-> FALSE] stands for the SyntaxError it throws
JSONparse(text) ==
    IF text.kind = "json" THEN [ok |-> TRUE, value |-> text.doc] ELSE [ok |-> FALSE]

Absent == [kind |-> "absent"]
Corrupt == [kind |-> "corrupt"]

(***************************************************************************)
(* The flow state as saveFlowState receives it: node shells whose data is  *)
(* the payload object the reference names, read from the heap h now.       *)
(***************************************************************************)
Deref(shell, h) == [shell EXCEPT !.data = h[shell.data]]

FlowValue(ns, es, h) ==
    [nodes |-> [i \in 1..Len(ns) |-> Deref(ns[i], h)], edges |-> es]

(***************************************************************************)
(* lib/localStorage: each operation returns the storage after it and, for  *)
(* load, the value returned.  fault says that JSON.stringify or the         *)
(* localStorage call of this invocation throws (a value JSON cannot write, *)
(* quota exceeded, storage access denied).                                 *)
(***************************************************************************)
\* variant of saveFlowState that serialises the nodes only
dropsEdgesSave(store, fs, fault) ==
    IF fault THEN [store |-> store, threw |-> FALSE]
    ELSE [store |-> JSONstringify([fs EXCEPT !.edges = <<>>]), threw |-> FALSE]

\* variant of saveFlowState without the try/catch
uncaughtSave(store, fs, fault) ==
    IF fault THEN [store |-> store, threw |-> TRUE]
    ELSE [store |-> JSONstringify(fs), threw |-> FALSE]

\* variant of saveFlowState that writes only when the key holds no record yet
keepsExistingRecord(store, fs, fault) ==
    IF fault \/ store # Absent
    THEN [store |-> store, threw |-> FALSE]
    ELSE [store |-> JSONstringify(fs), threw |-> FALSE]

saveFlowState(store, fs, fault) ==
    IF fault
    THEN [store |-> store, threw |-> FALSE]               \* catch: console.error
    ELSE [store |-> JSONstringify(fs), threw |-> FALSE]   \* setItem(KEY, text)

\* variant of loadFlowState whose JSON.parse is outside the try/catch
uncheckedLoad(store, fault) ==
    IF fault \/ store = Absent
    THEN [store |-> store, value |-> Null, threw |-> FALSE]
    ELSE LET parsed == JSONparse(store)
         IN  IF parsed.ok
             THEN [store |-> store, value |-> parsed.value, threw |-> FALSE]
             ELSE [store |-> store, value |-> [kind |-> "thrown"], threw |-> TRUE]

loadFlowState(store, fault) ==
    IF fault
    THEN [store |-> store, value |-> Null, threw |-> FALSE]      \* getItem throws: catch
    ELSE IF store = Absent
    THEN [store |-> store, value |-> Null, threw |-> FALSE]      \* serializedState === null
    ELSE LET parsed == JSONparse(store)
         IN  IF parsed.ok
             THEN [store |-> store, value |-> parsed.value, threw |-> FALSE]
             ELSE [store |-> store, value |-> Null, threw |-> FALSE]  \* catch

clearFlowState(store, fault) ==
    IF fault
    THEN [store |-> store, threw |-> FALSE]    \* catch: console.error
    ELSE [store |-> Absent, threw |-> FALSE]   \* removeItem(KEY)

(***************************************************************************)
(* hooks/useAutoSave.  A timer is [id, left, arg]: left counts the ticks   *)
(* until it is due, arg is the flowState object the callback closed over.  *)
(***************************************************************************)
NoTimer == 0

\* variant of clearTimeout that cancels nothing
ignoresClearTimeout(ts, id) == ts

\* window.clearTimeout(id): no effect when id names no pending timer
clearTimeout(ts, id) == {t \in ts : t.id # id}

\* window.setTimeout returns an id no pending timer and no reference holds
FreshTimerId(ts, ref) ==
    CHOOSE i \in 1..(Cardinality(ts) + 2) :
        /\ i # ref
        /\ \A t \in ts : t.id # i
        /\ \A j \in 1..(i - 1) : j = ref \/ \E t \in ts : t.id = j

\* variant of the effect that returns no cleanup
skipsEffectCleanup(ts, ref, eff) == ts

\* the cleanup the previous effect run returned, if it returned one
EffectCleanup(ts, ref, eff) ==
    IF eff = "armed" /\ ref # NoTimer THEN clearTimeout(ts, ref) ELSE ts

\* variant of the effect body without the test of enabled
schedulesWhenDisabled(ts, ref, fs, enabled) ==
    LET cleared == IF ref # NoTimer THEN clearTimeout(ts, ref) ELSE ts
        id == FreshTimerId(cleared, ref)
    IN  [timers |-> cleared \cup {[id |-> id, left |-> DebounceTicks, arg |-> fs]},
         timeoutRef |-> id,
         effect |-> "armed"]

\* the effect body, run after the cleanup when [flowState, debounceTime, enabled] changed
EffectBody(ts, ref, fs, enabled) ==
    IF ~enabled
    THEN [timers |-> ts, timeoutRef |-> ref, effect |-> "idle"]
    ELSE LET cleared == IF ref # NoTimer THEN clearTimeout(ts, ref) ELSE ts
             id == FreshTimerId(cleared, ref)
         IN  [timers |-> cleared \cup {[id |-> id, left |-> DebounceTicks, arg |-> fs]},
              timeoutRef |-> id,
              effect |-> "armed"]

\* variant of the hook that leaves a pending timer alone instead of rescheduling
keepsPendingTimer(ts, ref, eff, fs, enabled) ==
    IF enabled /\ (\E t \in ts : t.id = ref)
    THEN [timers |-> ts, timeoutRef |-> ref, effect |-> eff]
    ELSE EffectBody(EffectCleanup(ts, ref, eff), ref, fs, enabled)

useAutoSave(ts, ref, eff, fs, enabled) ==
    EffectBody(EffectCleanup(ts, ref, eff), ref, fs, enabled)

\* variant of the unmount that leaves the pending timer running
unmountKeepsTimer(ts, ref, eff) ==
    [timers |-> ts, timeoutRef |-> NoTimer, effect |-> "none"]

\* unmount: only the cleanup runs, and the ref goes with the component
useAutoSaveUnmount(ts, ref, eff) ==
    [timers |-> EffectCleanup(ts, ref, eff), timeoutRef |-> NoTimer, effect |-> "none"]

NoBurst == [changes |-> 0, calls |-> <<>>, state |-> <<>>]

\* history of the burst: a change while nothing is pending starts a new one
BurstAfterEffect(ts, fs, enabled) ==
    IF ~enabled THEN NoBurst
    ELSE IF ts = {} \/ burst.changes = 0
    THEN [changes |-> 1, calls |-> <<>>, state |-> fs]
    ELSE [changes |-> 2, calls |-> burst.calls, state |-> fs]

\* the timer callback: saveFlowState(flowState) of the render that armed it
TimerFire(t, fault) ==
    /\ t \in timers
    /\ t.left = 0
    /\ LET arg == FlowValue(t.arg.nodes, t.arg.edges, heap)
           r == saveFlowState(localStorage, arg, fault)
       IN  /\ localStorage' = r.store
           /\ last' = [op |-> "fire", arg |-> arg, closed |-> t.arg, fault |-> fault,
                       before |-> localStorage, threw |-> r.threw, unsaved |-> unsaved]
           /\ burst' = IF burst.changes = 0 THEN burst
                       ELSE [burst EXCEPT !.calls = Append(burst.calls, t.arg)]
    /\ timers' = timers \ {t}
    /\ unsaved' = IF fault THEN unsaved ELSE {}
    /\ UNCHANGED <<stamps, isEditMode, builder, reloading, nodes, edges, heap, editors,
                   reads, timeoutRef, effect, budget>>

\* time passes: one tick, unless a timer is due
Tick ==
    /\ timers # {}
    /\ \A t \in timers : t.left > 0
    /\ timers' = {[t EXCEPT !.left = t.left - 1] : t \in timers}
    /\ UNCHANGED <<stamps, localStorage, isEditMode, builder, reloading, nodes, edges, heap,
                   editors, reads, timeoutRef, effect, budget, burst, unsaved, last>>

(***************************************************************************)
(* The sample data served at /data/sampleData.json and the values a user   *)
(* can type or a file read can deliver.                                    *)
(***************************************************************************)
SampleCard(id, title) ==
    [id |-> id, title |-> title, description |-> "d0", imageUrl |-> "", buttons |-> <<>>]

SampleData ==
    [richCards |-> <<SampleCard("r1", "t0")>>,
     carouselCards |-> <<[id |-> "c1", cards |-> <<SampleCard("k1", "t0")>>]>>]

EditInputs == {<<"title", "a">>, <<"title", "b">>, <<"description", "a">>}
ReadResults == {"data:img", NullString}
DragTargets == {[x |-> 10, y |-> 10]}

(***************************************************************************)
(* FlowBuilder.fetchInitialData: the nodes and edges built from the sample *)
(* data, payloads as values.                                               *)
(***************************************************************************)
SampleNodes(data) ==
    LET richCardNodes ==
            [i \in 1..Len(data.richCards) |->
                [id |-> data.richCards[i].id, type |-> RICH_CARD,
                 data |-> data.richCards[i],
                 position |-> [x |-> 250 * (i - 1), y |-> 300]]]
        carouselCardNodes ==
            [i \in 1..Len(data.carouselCards) |->
                [id |-> data.carouselCards[i].id, type |-> CAROUSEL_CARD,
                 data |-> data.carouselCards[i],
                 position |-> [x |-> 250 * (i - 1), y |-> 50]]]
    IN  carouselCardNodes \o richCardNodes

\* variant of the edge loop that draws each edge from the card to the carousel
RECURSIVE edgesFromCard(_, _)
edgesFromCard(carousel, k) ==
    IF k > Len(carousel.cards) THEN <<>>
    ELSE <<[id |-> carousel.id \o "-to-" \o carousel.cards[k].id,
            source |-> carousel.cards[k].id,
            target |-> carousel.id]>> \o edgesFromCard(carousel, k + 1)

RECURSIVE CarouselEdges(_, _)
CarouselEdges(carousel, k) ==
    IF k > Len(carousel.cards) THEN <<>>
    ELSE <<[id |-> carousel.id \o "-to-" \o carousel.cards[k].id,
            source |-> carousel.id,
            target |-> carousel.cards[k].id]>> \o CarouselEdges(carousel, k + 1)

RECURSIVE SampleEdges(_, _)
SampleEdges(data, i) ==
    IF i > Len(data.carouselCards) THEN <<>>
    ELSE CarouselEdges(data.carouselCards[i], 1) \o SampleEdges(data, i + 1)

(***************************************************************************)
(* Putting node values into React state: every payload becomes an object   *)
(* of its own, named by a reference no live object has.                    *)
(***************************************************************************)
RECURSIVE FreshRefs(_, _, _)
FreshRefs(used, n, from) ==
    IF n = 0 THEN <<>>
    ELSE IF from \in used THEN FreshRefs(used, n, from + 1)
    ELSE <<from>> \o FreshRefs(used, n - 1, from + 1)

Adopt(valueNodes, h) ==
    LET refs == FreshRefs(DOMAIN h, Len(valueNodes), 1)
    IN  [nodes |-> [i \in 1..Len(valueNodes) |-> [valueNodes[i] EXCEPT !.data = refs[i]]],
         heap |-> [r \in (DOMAIN h) \cup {refs[i] : i \in 1..Len(valueNodes)} |->
                      IF r \in DOMAIN h THEN h[r]
                      ELSE valueNodes[CHOOSE i \in 1..Len(valueNodes) : refs[i] = r].data]]

\* the objects something still refers to: the node list and the reads in flight
Live(h, ns, rds) ==
    [r \in {q \in DOMAIN h : (\E i \in 1..Len(ns) : ns[i].data = q)
                              \/ (\E rd \in rds : rd.ref = q)} |-> h[r]]

(***************************************************************************)
(* Node components.  RichCard keeps actions, card and imageUrl; card       *)
(* starts as the payload object itself (useState(cardData)) and becomes a  *)
(* copy on the first setCard.  CarouselCard keeps cards.                   *)
(***************************************************************************)
OrElse(v, dflt) == IF v \in {Undefined, NullString, ""} THEN dflt ELSE v

MountEditor(shell, h) ==
    LET cardData == h[shell.data]
    IN  IF shell.type = RICH_CARD
        THEN [kind |-> "rich", id |-> shell.id,
              actions |-> IF "buttons" \in DOMAIN cardData THEN cardData.buttons ELSE <<>>,
              card |-> [alias |-> TRUE],
              imageUrl |-> OrElse(Get(cardData, "imageUrl"), "")]
        ELSE [kind |-> "carousel", id |-> shell.id,
              cards |-> IF "cards" \in DOMAIN cardData THEN cardData.cards ELSE <<>>]

MountEditors(ns, h) ==
    [r \in {ns[i].data : i \in 1..Len(ns)} |->
        MountEditor(ns[CHOOSE i \in 1..Len(ns) : ns[i].data = r], h)]

\* card.title / card.description as a closure holding card reads it
CardField(card, cardData, f) == IF card.alias THEN Get(cardData, f) ELSE card[f]

\* variant of the map that leaves the id test out
patchesEveryNode(docNodes, id, patch) ==
    [i \in 1..Len(docNodes) |->
        Spread(docNodes[i], [data |-> Spread(docNodes[i].data, patch)])]

\* flowState.nodes.map(...) of both autoSave functions: patch the data of the nodes named id
PatchNodes(docNodes, id, patch) ==
    [i \in 1..Len(docNodes) |->
        IF docNodes[i].id = id
        THEN Spread(docNodes[i], [data |-> Spread(docNodes[i].data, patch)])
        ELSE docNodes[i]]

IsFlowDoc(doc) == "nodes" \in DOMAIN doc

\* the body both autoSave functions share: read, parse, patch, write back; any throw is caught
DirectPatch(store, id, patch) ==
    IF store = Absent THEN store                          \* if (flowStateStr)
    ELSE LET parsed == JSONparse(store)
         IN  IF ~parsed.ok THEN store                     \* catch
             ELSE IF ~IsFlowDoc(parsed.value) THEN store  \* catch (nodes.map of undefined)
             ELSE JSONstringify(Spread(parsed.value,
                      [nodes |-> PatchNodes(parsed.value.nodes, id, patch)]))

\* RichCard.autoSave, with the actions and card of the render whose closure calls it
RichAutoSave(store, id, actions, card, cardData) ==
    DirectPatch(store, id,
        [buttons |-> actions,
         title |-> CardField(card, cardData, "title"),
         description |-> CardField(card, cardData, "description"),
         imageUrl |-> Get(cardData, "imageUrl")])

\* variant of CarouselCard.autoSave that writes the cards the record already has
savesPersistedCards(store, id, updatedCards) == store

\* CarouselCard.autoSave(updatedCards)
CarouselAutoSave(store, id, updatedCards) ==
    DirectPatch(store, id, [cards |-> updatedCards])

(***************************************************************************)
(* FlowBuilder: mounting, the initial load and the re-render that arms     *)
(* the autosave.                                                           *)
(***************************************************************************)
\* setNodes, setEdges, setIsLoading(false) and the render that follows
Ready(valueNodes, es, h0, ts, ref, eff) ==
    LET a == Adopt(valueNodes, h0)
        hook == useAutoSave(ts, ref, eff, [nodes |-> a.nodes, edges |-> es], TRUE)
    IN  /\ nodes' = a.nodes
        /\ edges' = es
        /\ heap' = a.heap
        /\ editors' = MountEditors(a.nodes, a.heap)
        /\ timers' = hook.timers
        /\ timeoutRef' = hook.timeoutRef
        /\ effect' = hook.effect
        /\ builder' = "ready"

\* variant of the mount that never looks at the persisted record
mountsSampleOnly(store, h0, ts) ==
    LET first == useAutoSave(ts, NoTimer, "none", [nodes |-> <<>>, edges |-> <<>>], FALSE)
    IN  /\ nodes' = <<>>
        /\ edges' = <<>>
        /\ heap' = h0
        /\ editors' = <<>>
        /\ timers' = first.timers
        /\ timeoutRef' = first.timeoutRef
        /\ effect' = first.effect
        /\ builder' = "loading"

\* first render (isLoading, autosave disabled) and the start of fetchInitialData
Mount(store, h0, ts) ==
    LET savedState == loadFlowState(store, FALSE).value
        first == useAutoSave(ts, NoTimer, "none", [nodes |-> <<>>, edges |-> <<>>], FALSE)
    IN  IF savedState # Null /\ ~IsFlowDoc(savedState)
        THEN Ready(<<>>, <<>>, h0, first.timers, first.timeoutRef, first.effect)  \* catch, finally
        ELSE IF savedState # Null /\ Len(savedState.nodes) > 0
        THEN Ready(savedState.nodes, savedState.edges, h0,
                   first.timers, first.timeoutRef, first.effect)
        ELSE /\ nodes' = <<>>                            \* await fetch(...)
             /\ edges' = <<>>
             /\ heap' = h0
             /\ editors' = <<>>
             /\ timers' = first.timers
             /\ timeoutRef' = first.timeoutRef
             /\ effect' = first.effect
             /\ builder' = "loading"

\* the else branch of fetchInitialData completes with the sample data the fetch delivered
SampleArrived(data) ==
    /\ builder = "loading"
    /\ Ready(SampleNodes(data), SampleEdges(data, 1), heap, timers, timeoutRef, effect)
    /\ last' = [op |-> "sampleLoaded", before |-> localStorage, data |-> data]
    /\ UNCHANGED <<stamps, localStorage, isEditMode, reloading, reads, budget, burst, unsaved>>

SampleLoaded == SampleArrived(SampleData)

\* the contents data/cards.json can have: ViewMode shows its nodes and edges
NoDummyData == [nodes |-> <<>>, edges |-> <<>>]

DummyDataSets ==
    {NoDummyData,
     [nodes |-> SampleNodes(SampleData), edges |-> SampleEdges(SampleData, 1)],
     [nodes |-> <<[id |-> "1", type |-> RICH_CARD, position |-> [x |-> 0, y |-> 0],
                   data |-> SampleCard("1", "t0")]>>,
      edges |-> <<>>]}

\* the page is showing node components: the editor after its load, or ViewMode
Rendered == builder = "ready" \/ ~isEditMode

\* App: the View button; FlowBuilder and its node components unmount, ViewMode
\* mounts, sets the nodes and edges of the dummy data and renders them with the
\* same nodeTypes
ViewMounted(data) ==
    /\ isEditMode /\ ~reloading /\ budget > 0
    /\ LET hook == useAutoSaveUnmount(timers, timeoutRef, effect)
       IN  /\ timers' = hook.timers
           /\ timeoutRef' = hook.timeoutRef
           /\ effect' = hook.effect
    /\ isEditMode' = FALSE
    /\ builder' = "unmounted"
    /\ LET a == Adopt(data.nodes, Live(heap, <<>>, reads))
       IN  /\ nodes' = a.nodes
           /\ edges' = data.edges
           /\ editors' = MountEditors(a.nodes, a.heap)
           /\ heap' = a.heap
    /\ unsaved' = {}
    /\ budget' = budget - 1
    /\ last' = [op |-> "switchToView", pending |-> timers # {}, before |-> localStorage,
                flow |-> FlowValue(nodes, edges, heap)]
    /\ UNCHANGED <<stamps, localStorage, reloading, reads, burst>>

SwitchToView == ViewMounted(NoDummyData)

\* App: the Edit button; ViewMode unmounts, a new FlowBuilder mounts and loads
SwitchToEdit ==
    /\ ~isEditMode /\ ~reloading /\ budget > 0
    /\ isEditMode' = TRUE
    /\ Mount(localStorage, Live(heap, <<>>, reads), timers)
    /\ budget' = budget - 1
    /\ last' = [op |-> "switchToEdit", before |-> localStorage, prev |-> last]
    /\ UNCHANGED <<stamps, localStorage, reloading, reads, burst, unsaved>>

\* handleReset: clearFlowState(); window.location.reload()
handleReset ==
    /\ ~reloading /\ budget > 0
    /\ localStorage' = clearFlowState(localStorage, FALSE).store
    /\ reloading' = TRUE
    /\ budget' = budget - 1
    /\ last' = [op |-> "reset", before |-> localStorage]
    /\ UNCHANGED <<stamps, isEditMode, builder, nodes, edges, heap, editors, reads, timers,
                   timeoutRef, effect, burst, unsaved>>

\* the reload commits: the old document, its timers and its reads are gone;
\* the new document renders App and mounts FlowBuilder
PageLoad ==
    /\ reloading
    /\ reloading' = FALSE
    /\ isEditMode' = TRUE
    /\ reads' = {}
    /\ Mount(localStorage, <<>>, {})
    /\ unsaved' = {}
    /\ last' = [op |-> "pageLoad", store |-> localStorage]
    /\ UNCHANGED <<stamps, localStorage, budget, burst>>

\* onNodesChange with a position change: setNodes, so FlowBuilder renders again
DragNode(i, pos) ==
    /\ builder = "ready" /\ ~reloading /\ budget > 0
    /\ i \in 1..Len(nodes)
    /\ nodes[i].position # pos
    /\ nodes' = [nodes EXCEPT ![i].position = pos]
    /\ LET hook == useAutoSave(timers, timeoutRef, effect,
                               [nodes |-> nodes', edges |-> edges], TRUE)
       IN  /\ timers' = hook.timers
           /\ timeoutRef' = hook.timeoutRef
           /\ effect' = hook.effect
    /\ budget' = budget - 1
    /\ last' = [op |-> "drag", before |-> localStorage]
    /\ UNCHANGED <<stamps, localStorage, isEditMode, builder, reloading, edges, heap, editors,
                   reads, burst, unsaved>>

(***************************************************************************)
(* History kept for the properties: the latest user edit of each field     *)
(* made while a read was in flight, and the edits made while there was no  *)
(* persisted record.                                                       *)
(***************************************************************************)
WithEdit(set, e) ==
    {x \in set : ~(x.ref = e.ref /\ x.cardId = e.cardId /\ x.field = e.field)} \cup {e}

WithoutEdit(set, e) ==
    {x \in set : ~(x.ref = e.ref /\ x.cardId = e.cardId /\ x.field = e.field)}

NoteEdit(rds, e) ==
    {IF rd.ref = e.ref THEN [rd EXCEPT !.edits = WithEdit(@, e)] ELSE rd : rd \in rds}

(***************************************************************************)
(* RichCard                                                                *)
(***************************************************************************)
\* variant of onChangeContent that writes the value into a copy of the payload
\* and leaves the payload object itself as it was
editsCopyOfPayload(ref, field, value) ==
    /\ Rendered /\ ~reloading /\ budget > 0
    /\ ref \in DOMAIN editors
    /\ editors[ref].kind = "rich"
    /\ LET ed == editors[ref]
           edit == [ref |-> ref, cardId |-> "", field |-> field, value |-> value]
           copy == [alias |-> FALSE,
                    title |-> IF field = "title" THEN value
                              ELSE CardField(ed.card, heap[ref], "title"),
                    description |-> IF field = "description" THEN value
                                    ELSE CardField(ed.card, heap[ref], "description")]
           cardData == Spread(heap[ref], [f \in {field} |-> value])
       IN  /\ heap' = heap
           /\ editors' = [editors EXCEPT ![ref].card = copy]
           /\ localStorage' = RichAutoSave(localStorage, ed.id, ed.actions, ed.card, cardData)
           /\ reads' = NoteEdit(reads, edit)
           /\ unsaved' = IF localStorage = Absent THEN WithEdit(unsaved, edit)
                         ELSE WithoutEdit(unsaved, edit)
           /\ last' = [op |-> "richEdit", ref |-> ref, id |-> ed.id, field |-> field,
                       value |-> value, before |-> localStorage]
    /\ budget' = budget - 1
    /\ UNCHANGED <<stamps, isEditMode, builder, reloading, nodes, edges, timers, timeoutRef,
                   effect, burst>>

\* onChangeContent(value, type), and the render setCard causes
onChangeContent(ref, field, value) ==
    /\ Rendered /\ ~reloading /\ budget > 0
    /\ ref \in DOMAIN editors
    /\ editors[ref].kind = "rich"
    /\ LET ed == editors[ref]
           edit == [ref |-> ref, cardId |-> "", field |-> field, value |-> value]
           copy == [alias |-> FALSE,
                    title |-> IF field = "title" THEN value
                              ELSE CardField(ed.card, heap[ref], "title"),
                    description |-> IF field = "description" THEN value
                                    ELSE CardField(ed.card, heap[ref], "description")]
           cardData == Spread(heap[ref], [f \in {field} |-> value])
       IN  /\ heap' = [heap EXCEPT ![ref] = cardData]
           /\ editors' = [editors EXCEPT ![ref].card = copy]
           /\ localStorage' = RichAutoSave(localStorage, ed.id, ed.actions, ed.card, cardData)
           /\ reads' = NoteEdit(reads, edit)
           /\ unsaved' = IF localStorage = Absent THEN WithEdit(unsaved, edit)
                         ELSE WithoutEdit(unsaved, edit)
           /\ last' = [op |-> "richEdit", ref |-> ref, id |-> ed.id, field |-> field,
                       value |-> value, before |-> localStorage]
    /\ budget' = budget - 1
    /\ UNCHANGED <<stamps, isEditMode, builder, reloading, nodes, edges, timers, timeoutRef,
                   effect, burst>>

\* handleImageUpload: a file was chosen and reader.readAsDataURL(file) started
RichUploadStart(ref) ==
    /\ Rendered /\ ~reloading /\ budget > 0
    /\ ref \in DOMAIN editors
    /\ editors[ref].kind = "rich"
    /\ editors[ref].imageUrl \in {"", NullString}       \* the input is rendered
    /\ Cardinality(reads) < MaxReads
    /\ reads' = reads \cup
           {[ref |-> ref, kind |-> "rich", id |-> editors[ref].id, cardId |-> "",
             card |-> editors[ref].card, actions |-> editors[ref].actions,
             cards |-> <<>>, edits |-> {},
             image0 |-> Get(heap[ref], "imageUrl"), local0 |-> editors[ref].imageUrl]}
    /\ budget' = budget - 1
    /\ last' = [op |-> "uploadStart", ref |-> ref, before |-> localStorage]
    /\ UNCHANGED <<stamps, localStorage, isEditMode, builder, reloading, nodes, edges, heap,
                   editors, timers, timeoutRef, effect, burst, unsaved>>

(***************************************************************************)
(* CarouselCard                                                            *)
(***************************************************************************)
EditCard(c, cardId, field, value) ==
    IF c.id = cardId /\ field = "title" THEN [c EXCEPT !.title = value]
    ELSE IF c.id = cardId /\ field = "description" THEN [c EXCEPT !.description = value]
    ELSE c

\* onchangeContent(event, card, type) for title and description
onchangeContent(ref, cardId, field, value) ==
    /\ Rendered /\ ~reloading /\ budget > 0
    /\ ref \in DOMAIN editors
    /\ editors[ref].kind = "carousel"
    /\ \E k \in 1..Len(editors[ref].cards) : editors[ref].cards[k].id = cardId
    /\ LET ed == editors[ref]
           edit == [ref |-> ref, cardId |-> cardId, field |-> field, value |-> value]
           updatedCards == [k \in 1..Len(ed.cards) |-> EditCard(ed.cards[k], cardId, field, value)]
       IN  /\ heap' = [heap EXCEPT ![ref] = Spread(@, [cards |-> updatedCards])]
           /\ editors' = [editors EXCEPT ![ref].cards = updatedCards]
           /\ localStorage' = CarouselAutoSave(localStorage, ed.id, updatedCards)
           /\ reads' = NoteEdit(reads, edit)
           /\ unsaved' = IF localStorage = Absent THEN WithEdit(unsaved, edit)
                         ELSE WithoutEdit(unsaved, edit)
           /\ last' = [op |-> "carouselEdit", ref |-> ref, id |-> ed.id, cardId |-> cardId,
                       field |-> field, value |-> value, before |-> localStorage,
                       actionId |-> "", cards |-> ed.cards]
    /\ budget' = budget - 1
    /\ UNCHANGED <<stamps, isEditMode, builder, reloading, nodes, edges, timers, timeoutRef,
                   effect, burst>>

\* card.imageUrl of the card named cardId, as the component renders it
CardImage(cards, cardId) ==
    IF \E k \in 1..Len(cards) : cards[k].id = cardId
    THEN Get(cards[CHOOSE k \in 1..Len(cards) : cards[k].id = cardId], "imageUrl")
    ELSE Undefined

\* onchangeContent(event, card, "imageUrl") -> handleImageUpload(event, card)
CarouselUploadStart(ref, cardId) ==
    /\ Rendered /\ ~reloading /\ budget > 0
    /\ ref \in DOMAIN editors
    /\ editors[ref].kind = "carousel"
    /\ \E k \in 1..Len(editors[ref].cards) :
           /\ editors[ref].cards[k].id = cardId
           /\ Get(editors[ref].cards[k], "imageUrl") \in {"", NullString, Undefined}
    /\ Cardinality(reads) < MaxReads
    /\ reads' = reads \cup
           {[ref |-> ref, kind |-> "carousel", id |-> editors[ref].id, cardId |-> cardId,
             card |-> [alias |-> TRUE], actions |-> <<>>,
             cards |-> editors[ref].cards, edits |-> {},
             image0 |-> CardImage(heap[ref].cards, cardId),
             local0 |-> CardImage(editors[ref].cards, cardId)]}
    /\ budget' = budget - 1
    /\ last' = [op |-> "uploadStart", ref |-> ref, before |-> localStorage]
    /\ UNCHANGED <<stamps, localStorage, isEditMode, builder, reloading, nodes, edges, heap,
                   editors, timers, timeoutRef, effect, burst, unsaved>>

(***************************************************************************)
(* reader.onloadend of either editor, run with the closure of the render   *)
(* that started the read; reader.result is null when the read failed.      *)
(***************************************************************************)
\* CarouselCard: cards.map(c => c.id === card.id ? {...c, imageUrl} : c)
CardsOnLoadEnd(rd, result) ==
    [k \in 1..Len(rd.cards) |->
        IF rd.cards[k].id = rd.cardId THEN [rd.cards[k] EXCEPT !.imageUrl = result]
        ELSE rd.cards[k]]

ReadComplete(rd, result) ==
    /\ rd \in reads
    /\ LET mounted == rd.ref \in DOMAIN editors
           updatedCards == CardsOnLoadEnd(rd, result)
           cardData == IF rd.kind = "rich"
                       THEN Spread(heap[rd.ref], [imageUrl |-> result])
                       ELSE Spread(heap[rd.ref], [cards |-> updatedCards])
       IN  /\ reads' = reads \ {rd}
           /\ heap' = Live([heap EXCEPT ![rd.ref] = cardData], nodes, reads')
           /\ editors' = IF ~mounted THEN editors
                         ELSE IF rd.kind = "rich"
                         THEN [editors EXCEPT ![rd.ref].imageUrl = result]
                         ELSE [editors EXCEPT ![rd.ref].cards = updatedCards]
           /\ localStorage' = IF rd.kind = "rich"
                              THEN RichAutoSave(localStorage, rd.id, rd.actions, rd.card, cardData)
                              ELSE CarouselAutoSave(localStorage, rd.id, updatedCards)
           /\ last' = [op |-> "readDone", ref |-> rd.ref, kind |-> rd.kind, id |-> rd.id,
                       cardId |-> rd.cardId, result |-> result, mounted |-> mounted,
                       edits |-> rd.edits, before |-> localStorage,
                       image0 |-> rd.image0, local0 |-> rd.local0,
                       flow |-> FlowValue(nodes, edges, heap)]
    /\ UNCHANGED <<stamps, isEditMode, builder, reloading, nodes, edges, timers, timeoutRef,
                   effect, budget, burst, unsaved>>

(***************************************************************************)
(* Operations that add to the flow: FlowBuilder.addNode, CarouselCard       *)
(* addCard and addAction, RichCard addAction, and the edits of a carousel  *)
(* action.  now is the value Date.now() returns to the call.               *)
(***************************************************************************)
Timestamps == 1..MaxNow
AddPositions == {[x |-> 120, y |-> 80]}
ActionLabels == {"Chip", "Browse"}

\* variant of the node id that leaves the type out
untypedNodeId(type, now) == "node-" \o ToString(now)

\* `${type}-${Date.now()}`
NewNodeId(type, now) == type \o "-" \o ToString(now)

\* the node addNode builds for the type
NewNode(type, now, pos) ==
    LET id == NewNodeId(type, now)
    IN  IF type = RICH_CARD
        THEN [id |-> id, type |-> type, position |-> pos,
              data |-> [id |-> id, title |-> "New Rich Card",
                        description |-> "Add a description here...",
                        imageUrl |-> "", buttons |-> <<>>]]
        ELSE [id |-> id, type |-> type, position |-> pos,
              data |-> [cards |-> <<[id |-> id \o "-card-1", title |-> "Card 1",
                                     description |-> "Add a description here...",
                                     imageUrl |-> "", buttons |-> <<>>]>>]]

\* variant of the update that puts the new node first
prependsNode(nds, newNode) == <<newNode>> \o nds

\* setNodes((nds) => [...nds, newNode])
AppendNode(nds, newNode) == nds \o <<newNode>>

\* addNode(type), the render it causes and the mount of the new node's component
addNode(type, now, pos) ==
    /\ builder = "ready" /\ ~reloading /\ budget > 0
    /\ LET a == Adopt(<<NewNode(type, now, pos)>>, heap)
           shell == a.nodes[1]
           hook == useAutoSave(timers, timeoutRef, effect,
                               [nodes |-> AppendNode(nodes, shell), edges |-> edges], TRUE)
       IN  /\ nodes' = AppendNode(nodes, shell)
           /\ heap' = a.heap
           /\ editors' = [r \in (DOMAIN editors) \cup {shell.data} |->
                             IF r \in DOMAIN editors THEN editors[r]
                             ELSE MountEditor(shell, a.heap)]
           /\ timers' = hook.timers
           /\ timeoutRef' = hook.timeoutRef
           /\ effect' = hook.effect
    /\ stamps' = Append(stamps, <<type, now>>)
    /\ budget' = budget - 1
    /\ last' = [op |-> "addNode", type |-> type, now |-> now, shells |-> nodes,
                flow |-> FlowValue(nodes, edges, heap), before |-> localStorage]
    /\ UNCHANGED <<localStorage, isEditMode, builder, reloading, edges, reads, burst,
                   unsaved>>

\* the card CarouselCard.addCard builds
NewCard(now) ==
    [id |-> "rich-card-" \o ToString(now), title |-> "New Card",
     description |-> "Add description here...", imageUrl |-> "", buttons |-> <<>>,
     speaker |-> "bot"]

\* variant of the append that puts the new card first
cardFirst(cards, newCard) == <<newCard>> \o cards

\* [...cards, newCard]
WithNewCard(cards, newCard) == cards \o <<newCard>>

\* CarouselCard.addCard; when cardData.cards is missing the spread throws and the
\* catch leaves everything as it was
addCard(ref, now) ==
    /\ Rendered /\ ~reloading /\ budget > 0
    /\ ref \in DOMAIN editors
    /\ editors[ref].kind = "carousel"
    /\ "cards" \in DOMAIN heap[ref]
    /\ LET ed == editors[ref]
           updatedCardIds == WithNewCard(heap[ref].cards, NewCard(now))
       IN  /\ heap' = [heap EXCEPT ![ref] = Spread(@, [cards |-> updatedCardIds])]
           /\ editors' = [editors EXCEPT ![ref].cards = WithNewCard(ed.cards, NewCard(now))]
           /\ localStorage' = DirectPatch(localStorage, ed.id, [cards |-> updatedCardIds])
           /\ last' = [op |-> "addCard", ref |-> ref, id |-> ed.id, now |-> now,
                       cards |-> ed.cards, payload |-> heap[ref].cards,
                       shells |-> nodes, edges |-> edges, before |-> localStorage]
    /\ budget' = budget - 1
    /\ UNCHANGED <<isEditMode, builder, reloading, nodes, edges, reads, timers,
                   timeoutRef, effect, burst, unsaved, stamps>>

\* the action CarouselCard.addAction builds
NewCarouselAction(now) ==
    [id |-> "action-" \o ToString(now), label |-> "Choose a type of CTA.... ",
     action |-> "DEFAULT_ACTION", type |-> "action", title |-> "Action Title"]

\* variant of the three writes that leaves cardData.cards out
commitsLocalOnly(ref, updatedCards) ==
    /\ heap' = heap
    /\ editors' = [editors EXCEPT ![ref].cards = updatedCards]
    /\ localStorage' = CarouselAutoSave(localStorage, editors[ref].id, updatedCards)

\* the three writes every CarouselCard handler ends with: setCards, cardData.cards, autoSave
CarouselCommit(ref, updatedCards) ==
    /\ heap' = [heap EXCEPT ![ref] = Spread(@, [cards |-> updatedCards])]
    /\ editors' = [editors EXCEPT ![ref].cards = updatedCards]
    /\ localStorage' = CarouselAutoSave(localStorage, editors[ref].id, updatedCards)

\* CarouselCard.addAction(card)
CarouselAddAction(ref, cardId, now) ==
    /\ Rendered /\ ~reloading /\ budget > 0
    /\ ref \in DOMAIN editors
    /\ editors[ref].kind = "carousel"
    /\ LET ed == editors[ref]
           updatedCards ==
               [k \in 1..Len(ed.cards) |->
                   IF ed.cards[k].id = cardId
                   THEN Spread(ed.cards[k],
                            [buttons |-> Append(IF "buttons" \in DOMAIN ed.cards[k]
                                                THEN ed.cards[k].buttons ELSE <<>>,
                                                NewCarouselAction(now))])
                   ELSE ed.cards[k]]
       IN  /\ CarouselCommit(ref, updatedCards)
           /\ last' = [op |-> "carouselAddAction", ref |-> ref, id |-> ed.id,
                       cardId |-> cardId, now |-> now, cards |-> ed.cards,
                       before |-> localStorage]
    /\ budget' = budget - 1
    /\ UNCHANGED <<isEditMode, builder, reloading, nodes, edges, reads, timers,
                   timeoutRef, effect, burst, unsaved, stamps>>

\* c.buttons.map(b => b.id === actionID ? { ...b, [field]: value } : b) on the card named
EditCardAction(c, cardId, actionID, field, value) ==
    IF c.id = cardId
    THEN [c EXCEPT !.buttons =
             [b \in 1..Len(c.buttons) |->
                 IF c.buttons[b].id = actionID
                 THEN Spread(c.buttons[b], [f \in {field} |-> value])
                 ELSE c.buttons[b]]]
    ELSE c

\* onchangeContent(event, card, "actionTitle", actionID)
onchangeActionTitle(ref, cardId, actionID, value) ==
    /\ Rendered /\ ~reloading /\ budget > 0
    /\ ref \in DOMAIN editors
    /\ editors[ref].kind = "carousel"
    /\ LET ed == editors[ref]
           updatedCards ==
               [k \in 1..Len(ed.cards) |->
                   EditCardAction(ed.cards[k], cardId, actionID, "title", value)]
       IN  /\ CarouselCommit(ref, updatedCards)
           /\ last' = [op |-> "carouselEdit", ref |-> ref, id |-> ed.id, cardId |-> cardId,
                       field |-> "actionTitle", value |-> value, before |-> localStorage,
                       actionId |-> actionID, cards |-> ed.cards]
    /\ budget' = budget - 1
    /\ UNCHANGED <<isEditMode, builder, reloading, nodes, edges, reads, timers,
                   timeoutRef, effect, burst, unsaved, stamps>>

\* the Select of an action: onValueChange(value)
onValueChange(ref, cardId, actionID, value) ==
    /\ Rendered /\ ~reloading /\ budget > 0
    /\ ref \in DOMAIN editors
    /\ editors[ref].kind = "carousel"
    /\ LET ed == editors[ref]
           updatedCards ==
               [k \in 1..Len(ed.cards) |->
                   EditCardAction(ed.cards[k], cardId, actionID, "label", value)]
       IN  /\ CarouselCommit(ref, updatedCards)
           /\ last' = [op |-> "carouselEdit", ref |-> ref, id |-> ed.id, cardId |-> cardId,
                       field |-> "label", value |-> value, before |-> localStorage,
                       actionId |-> actionID, cards |-> ed.cards]
    /\ budget' = budget - 1
    /\ UNCHANGED <<isEditMode, builder, reloading, nodes, edges, reads, timers,
                   timeoutRef, effect, burst, unsaved, stamps>>

\* the action RichCard.addAction(type) builds when the card has n actions
NewRichAction(type, now, n) ==
    [id |-> "action-" \o ToString(now), label |-> "Action " \o ToString(n + 1),
     action |-> "DEFAULT_ACTION", type |-> type,
     title |-> IF type = "action" THEN "Action Title" ELSE ""]

\* RichCard.addAction(type): autoSave runs with the actions of the render that
\* created the handler
RichAddAction(ref, type, now) ==
    /\ Rendered /\ ~reloading /\ budget > 0
    /\ ref \in DOMAIN editors
    /\ editors[ref].kind = "rich"
    /\ LET ed == editors[ref]
           updatedActions == Append(ed.actions, NewRichAction(type, now, Len(ed.actions)))
           cardData == Spread(heap[ref], [buttons |-> updatedActions])
       IN  /\ heap' = [heap EXCEPT ![ref] = cardData]
           /\ editors' = [editors EXCEPT ![ref].actions = updatedActions]
           /\ localStorage' = RichAutoSave(localStorage, ed.id, ed.actions, ed.card, cardData)
           /\ last' = [op |-> "richAddAction", ref |-> ref, id |-> ed.id, type |-> type,
                       now |-> now, actions |-> ed.actions, before |-> localStorage]
    /\ budget' = budget - 1
    /\ UNCHANGED <<isEditMode, builder, reloading, nodes, edges, reads, timers,
                   timeoutRef, effect, burst, unsaved, stamps>>

(***************************************************************************)
(* The editor application.                                                 *)
(***************************************************************************)
\* the cards a carousel component renders inputs for
RenderedCards(ref) ==
    IF editors[ref].kind = "carousel"
    THEN {editors[ref].cards[k].id : k \in 1..Len(editors[ref].cards)}
    ELSE {}

Init ==
    /\ localStorage \in {Absent, Corrupt}
    /\ isEditMode = TRUE
    /\ builder = "loading"
    /\ reloading = FALSE
    /\ nodes = <<>>
    /\ edges = <<>>
    /\ heap = <<>>
    /\ editors = <<>>
    /\ reads = {}
    /\ timers = {}
    /\ timeoutRef = NoTimer
    /\ effect = "idle"
    /\ budget = MaxOps
    /\ burst = NoBurst
    /\ unsaved = {}
    /\ stamps = <<>>
    /\ last = [op |-> "init"]

Next ==
    \/ SampleLoaded
    \/ SwitchToView
    \/ SwitchToEdit
    \/ handleReset
    \/ PageLoad
    \/ \E i \in 1..Len(nodes), pos \in DragTargets : DragNode(i, pos)
    \/ \E ref \in DOMAIN editors, in \in EditInputs : onChangeContent(ref, in[1], in[2])
    \/ \E ref \in DOMAIN editors : RichUploadStart(ref)
    \/ \E ref \in DOMAIN editors, in \in EditInputs :
           \E cardId \in RenderedCards(ref) : onchangeContent(ref, cardId, in[1], in[2])
    \/ \E ref \in DOMAIN editors :
           \E cardId \in RenderedCards(ref) : CarouselUploadStart(ref, cardId)
    \/ \E rd \in reads, result \in ReadResults : ReadComplete(rd, result)
    \/ \E t \in timers : TimerFire(t, FALSE)
    \/ Tick

Spec == Init /\ [][Next]_vars

(***************************************************************************)
(* useAutoSave under an arbitrary host component: the host mounts the      *)
(* hook, renders it with a new flowState object and an enabled flag of     *)
(* its choice, and unmounts it.  builder = "loading" is the mounted hook   *)
(* with enabled false, builder = "ready" with enabled true.                *)
(***************************************************************************)
HostObjects == Adopt(SampleNodes(SampleData), <<>>)

HostFlowStates ==
    {[nodes |-> <<>>, edges |-> <<>>],
     [nodes |-> SubSeq(HostObjects.nodes, 1, 1), edges |-> <<>>],
     [nodes |-> HostObjects.nodes, edges |-> SampleEdges(SampleData, 1)]}

HostInit ==
    /\ localStorage = Absent
    /\ isEditMode = TRUE
    /\ builder = "unmounted"
    /\ reloading = FALSE
    /\ nodes = <<>>
    /\ edges = <<>>
    /\ heap = HostObjects.heap
    /\ editors = <<>>
    /\ reads = {}
    /\ timers = {}
    /\ timeoutRef = NoTimer
    /\ effect = "none"
    /\ budget = MaxOps
    /\ burst = NoBurst
    /\ unsaved = {}
    /\ stamps = <<>>
    /\ last = [op |-> "init"]

\* a render of the host: the effect runs because flowState is a new object
HostRender(fs, enabled) ==
    /\ nodes' = fs.nodes
    /\ edges' = fs.edges
    /\ builder' = IF enabled THEN "ready" ELSE "loading"
    /\ LET hook == useAutoSave(timers, timeoutRef, effect, fs, enabled)
       IN  /\ timers' = hook.timers
           /\ timeoutRef' = hook.timeoutRef
           /\ effect' = hook.effect
    /\ burst' = BurstAfterEffect(timers, fs, enabled)
    /\ last' = [op |-> "hostRender", enabled |-> enabled, pending |-> timers # {},
                mounted |-> builder # "unmounted", before |-> localStorage]
    /\ UNCHANGED <<stamps, localStorage, isEditMode, reloading, heap, editors, reads, budget,
                   unsaved>>

HostUnmount ==
    /\ builder # "unmounted"
    /\ builder' = "unmounted"
    /\ LET hook == useAutoSaveUnmount(timers, timeoutRef, effect)
       IN  /\ timers' = hook.timers
           /\ timeoutRef' = hook.timeoutRef
           /\ effect' = hook.effect
    /\ burst' = NoBurst
    /\ last' = [op |-> "hostUnmount", pending |-> timers # {}, before |-> localStorage]
    /\ UNCHANGED <<stamps, localStorage, isEditMode, reloading, nodes, edges, heap, editors,
                   reads, budget, unsaved>>

HostNext ==
    \/ \E fs \in HostFlowStates, enabled \in BOOLEAN : HostRender(fs, enabled)
    \/ HostUnmount
    \/ \E t \in timers, fault \in BOOLEAN : TimerFire(t, fault)
    \/ Tick

HookSpec == HostInit /\ [][HostNext]_vars

(***************************************************************************)
(* lib/localStorage called directly, on any content of the slot, with and  *)
(* without a failing localStorage.                                         *)
(***************************************************************************)
StoreNodes == SampleNodes(SampleData)

\* flow states as the editor builds them: from the sample data and from addNode
StoreFlowValues ==
    {[nodes |-> ns, edges |-> es] :
        ns \in {<<>>,
                StoreNodes,
                SubSeq(StoreNodes, 2, 2),
                <<[id |-> "carouselCard-1", type |-> CAROUSEL_CARD,
                   position |-> [x |-> 3, y |-> 4],
                   data |-> [cards |-> <<SampleCard("carouselCard-1-card-1", "Card 1")>>]]>>,
                <<[StoreNodes[2] EXCEPT !.data.imageUrl = NullString,
                                        !.data.title = "a"]>>},
        es \in {<<>>, SampleEdges(SampleData, 1)}}

ForeignText == [kind |-> "json", doc |-> [version |-> "2"]]

StoreInit ==
    /\ localStorage \in {Absent, Corrupt, ForeignText}
    /\ isEditMode = TRUE
    /\ builder = "unmounted"
    /\ reloading = FALSE
    /\ nodes = <<>>
    /\ edges = <<>>
    /\ heap = <<>>
    /\ editors = <<>>
    /\ reads = {}
    /\ timers = {}
    /\ timeoutRef = NoTimer
    /\ effect = "none"
    /\ budget = MaxOps
    /\ burst = NoBurst
    /\ unsaved = {}
    /\ stamps = <<>>
    /\ last = [op |-> "init"]

StoreUnchanged ==
    UNCHANGED <<stamps, isEditMode, builder, reloading, nodes, edges, heap, editors, reads,
                timers, timeoutRef, effect, budget, burst, unsaved>>

StoreSave(fs, fault) ==
    /\ LET r == saveFlowState(localStorage, fs, fault)
       IN  /\ localStorage' = r.store
           /\ last' = [op |-> "save", arg |-> fs, fault |-> fault, threw |-> r.threw,
                       before |-> localStorage]
    /\ StoreUnchanged

StoreLoad(fault) ==
    /\ LET r == loadFlowState(localStorage, fault)
       IN  /\ localStorage' = r.store
           /\ last' = [op |-> "load", value |-> r.value, fault |-> fault, threw |-> r.threw,
                       before |-> localStorage]
    /\ StoreUnchanged

StoreClear(fault) ==
    /\ LET r == clearFlowState(localStorage, fault)
       IN  /\ localStorage' = r.store
           /\ last' = [op |-> "clear", fault |-> fault, threw |-> r.threw,
                       before |-> localStorage]
    /\ StoreUnchanged

\* something else rewrites the slot: another tab, an older build, the user
StoreTamper ==
    /\ localStorage' \in {Corrupt, ForeignText}
    /\ last' = [op |-> "tamper", before |-> localStorage]
    /\ StoreUnchanged

StoreNext ==
    \/ \E fs \in StoreFlowValues, fault \in BOOLEAN : StoreSave(fs, fault)
    \/ \E fault \in BOOLEAN : StoreLoad(fault)
    \/ \E fault \in BOOLEAN : StoreClear(fault)
    \/ StoreTamper

StoreSpec == StoreInit /\ [][StoreNext]_vars

(***************************************************************************)
(* The start of the editor on any content of the slot and any sample data: *)
(* the document loads, FlowBuilder mounts and fetchInitialData runs.       *)
(***************************************************************************)
LoadRecords ==
    {Absent, Corrupt, ForeignText} \cup {JSONstringify(fs) : fs \in StoreFlowValues}

SampleRichLists ==
    {<<>>, <<SampleCard("r1", "t0")>>, <<SampleCard("r1", "t0"), SampleCard("r2", "t1")>>}

SampleCarouselLists ==
    {<<>>,
     <<[id |-> "c1", cards |-> <<>>]>>,
     <<[id |-> "c1", cards |-> <<SampleCard("k1", "t0")>>]>>,
     <<[id |-> "c1", cards |-> <<SampleCard("k1", "t0"), SampleCard("k2", "t1")>>]>>,
     <<[id |-> "c1", cards |-> <<SampleCard("k1", "t0"), SampleCard("k2", "t1")>>],
       [id |-> "c2", cards |-> <<SampleCard("k3", "t0")>>]>>}

SampleDataSets ==
    {[richCards |-> rs, carouselCards |-> cs] :
        rs \in SampleRichLists, cs \in SampleCarouselLists}

LoadInit ==
    /\ localStorage \in LoadRecords
    /\ isEditMode = TRUE
    /\ builder = "unmounted"
    /\ reloading = TRUE
    /\ nodes = <<>>
    /\ edges = <<>>
    /\ heap = <<>>
    /\ editors = <<>>
    /\ reads = {}
    /\ timers = {}
    /\ timeoutRef = NoTimer
    /\ effect = "none"
    /\ budget = MaxOps
    /\ burst = NoBurst
    /\ unsaved = {}
    /\ stamps = <<>>
    /\ last = [op |-> "init"]

LoadNext ==
    \/ PageLoad
    \/ \E data \in SampleDataSets : SampleArrived(data)
    \/ \E t \in timers : TimerFire(t, FALSE)
    \/ Tick

LoadSpec == LoadInit /\ [][LoadNext]_vars

(***************************************************************************)
(* The editor under the operations that add to the flow, in two parts.     *)
(***************************************************************************)
\* the actions a carousel component renders inputs for, on the card named
RenderedActions(ref, cardId) ==
    IF editors[ref].kind = "carousel"
    THEN UNION {{c.buttons[b].id : b \in 1..Len(c.buttons)} :
                   c \in {editors[ref].cards[k] : k \in 1..Len(editors[ref].cards)}
                         \cap {x \in {editors[ref].cards[k] : k \in 1..Len(editors[ref].cards)} :
                                  x.id = cardId}}
    ELSE {}

\* adding nodes and cards
BuildNext ==
    \/ SampleLoaded
    \/ \E type \in {RICH_CARD, CAROUSEL_CARD}, now \in Timestamps, pos \in AddPositions :
           addNode(type, now, pos)
    \/ \E ref \in DOMAIN editors, now \in Timestamps : addCard(ref, now)
    \/ \E t \in timers : TimerFire(t, FALSE)
    \/ Tick

BuildSpec == Init /\ [][BuildNext]_vars

\* adding and editing the actions of the cards
ActionNext ==
    \/ SampleLoaded
    \/ \E ref \in DOMAIN editors, now \in Timestamps :
           \E cardId \in RenderedCards(ref) : CarouselAddAction(ref, cardId, now)
    \/ \E ref \in DOMAIN editors, value \in {"a"} :
           \E cardId \in RenderedCards(ref) :
               \E actionID \in RenderedActions(ref, cardId) :
                   onchangeActionTitle(ref, cardId, actionID, value)
    \/ \E ref \in DOMAIN editors, value \in ActionLabels :
           \E cardId \in RenderedCards(ref) :
               \E actionID \in RenderedActions(ref, cardId) :
                   onValueChange(ref, cardId, actionID, value)
    \/ \E ref \in DOMAIN editors, in \in EditInputs :
           \E cardId \in RenderedCards(ref) : onchangeContent(ref, cardId, in[1], in[2])
    \/ \E ref \in DOMAIN editors, now \in Timestamps : RichAddAction(ref, "action", now)
    \/ \E t \in timers : TimerFire(t, FALSE)
    \/ Tick

ActionSpec == Init /\ [][ActionNext]_vars

(***************************************************************************)
(* The View mode page: the application switches between the editor and      *)
(* ViewMode, which renders any of the dummy data sets, and the user types   *)
(* into the inputs of the node components either page shows.                *)
(***************************************************************************)
ViewNext ==
    \/ SampleLoaded
    \/ \E data \in DummyDataSets : ViewMounted(data)
    \/ SwitchToEdit
    \/ handleReset
    \/ PageLoad
    \/ \E ref \in DOMAIN editors, in \in EditInputs : onChangeContent(ref, in[1], in[2])
    \/ \E ref \in DOMAIN editors, in \in EditInputs :
           \E cardId \in RenderedCards(ref) : onchangeContent(ref, cardId, in[1], in[2])
    \/ \E t \in timers : TimerFire(t, FALSE)
    \/ Tick

ViewSpec == Init /\ [][ViewNext]_vars

(***************************************************************************)
(* The editor under changes of the node sequence, with the scheduling the   *)
(* browser gives: time passes while a timer is pending and a timer that is  *)
(* due runs its callback.                                                   *)
(***************************************************************************)
ChangeNext ==
    \/ SampleLoaded
    \/ \E type \in {RICH_CARD}, now \in Timestamps, pos \in AddPositions :
           addNode(type, now, pos)
    \/ \E i \in 1..Len(nodes), pos \in DragTargets : DragNode(i, pos)
    \/ SwitchToView
    \/ SwitchToEdit
    \/ \E t \in timers : TimerFire(t, FALSE)
    \/ Tick

LiveSpec ==
    /\ Init
    /\ [][ChangeNext]_vars
    /\ WF_vars(Tick)
    /\ WF_vars(\E t \in timers : TimerFire(t, FALSE))

(***************************************************************************)
(* The direct patches of the node components on a record that may or may    *)
(* not hold the node: nodes are added and edited between the debounced      *)
(* writes.                                                                  *)
(***************************************************************************)
PatchNext ==
    \/ SampleLoaded
    \/ \E type \in {RICH_CARD, CAROUSEL_CARD}, now \in Timestamps, pos \in AddPositions :
           addNode(type, now, pos)
    \/ \E ref \in DOMAIN editors : onChangeContent(ref, "title", "a")
    \/ \E ref \in DOMAIN editors :
           \E cardId \in RenderedCards(ref) : onchangeContent(ref, cardId, "title", "a")
    \/ \E ref \in DOMAIN editors, now \in Timestamps : addCard(ref, now)
    \/ \E t \in timers : TimerFire(t, FALSE)
    \/ Tick

PatchSpec == Init /\ [][PatchNext]_vars

(***************************************************************************)
(* The carousel editor under all of its operations, in any order, with      *)
(* image reads completing at any later moment.                              *)
(***************************************************************************)
CarouselNext ==
    \/ SampleLoaded
    \/ \E ref \in DOMAIN editors, now \in Timestamps : addCard(ref, now)
    \/ \E ref \in DOMAIN editors :
           \E cardId \in RenderedCards(ref) : onchangeContent(ref, cardId, "title", "a")
    \/ \E ref \in DOMAIN editors, now \in Timestamps :
           \E cardId \in RenderedCards(ref) : CarouselAddAction(ref, cardId, now)
    \/ \E ref \in DOMAIN editors :
           \E cardId \in RenderedCards(ref) :
               \E actionID \in RenderedActions(ref, cardId) :
                   onchangeActionTitle(ref, cardId, actionID, "a")
    \/ \E ref \in DOMAIN editors, value \in ActionLabels :
           \E cardId \in RenderedCards(ref) :
               \E actionID \in RenderedActions(ref, cardId) :
                   onValueChange(ref, cardId, actionID, value)
    \/ \E ref \in DOMAIN editors :
           \E cardId \in RenderedCards(ref) : CarouselUploadStart(ref, cardId)
    \/ \E rd \in reads, result \in ReadResults : ReadComplete(rd, result)
    \/ \E t \in timers : TimerFire(t, FALSE)
    \/ Tick

CarouselSpec == Init /\ [][CarouselNext]_vars

(***************************************************************************)
(* Properties.                                                             *)
(***************************************************************************)
NodesOf(text) ==
    IF text.kind = "json" /\ IsFlowDoc(text.doc) THEN text.doc.nodes ELSE <<>>

HasNode(text, id) == \E i \in 1..Len(NodesOf(text)) : NodesOf(text)[i].id = id

\* the field an edit names, in a payload (a rich card, or the cards of a carousel)
HoldsEdit(data, e) ==
    IF e.cardId = ""
    THEN Get(data, e.field) = e.value
    ELSE \A k \in 1..Len(data.cards) :
             data.cards[k].id = e.cardId => data.cards[k][e.field] = e.value

\* the same, in the local state of the component editing it
LocalHoldsEdit(ed, cardData, e) ==
    IF ed.kind = "rich"
    THEN CardField(ed.card, cardData, e.field) = e.value
    ELSE \A k \in 1..Len(ed.cards) :
             ed.cards[k].id = e.cardId => ed.cards[k][e.field] = e.value

\* C1: after a rich card's title edit whose node is in the persisted record, the
\* local card.title, the shared payload's title and the persisted node's title
\* all equal the value typed.
C1_TitleEditReachesAllThree ==
    (/\ last.op = "richEdit"
     /\ last.field = "title"
     /\ HasNode(last.before, last.id))
    => /\ CardField(editors[last.ref].card, heap[last.ref], "title") = last.value
       /\ heap[last.ref].title = last.value
       /\ \A i \in 1..Len(NodesOf(localStorage)) :
              NodesOf(localStorage)[i].id = last.id
              => NodesOf(localStorage)[i].data.title = last.value

\* C2: a burst of changes, each arriving while the previous write is still
\* pending, causes no call of saveFlowState while a write is pending and exactly
\* one call once the interval has run out, with the flowState of the last change.
C2_OneWritePerBurst ==
    burst.changes >= 1
    => IF timers # {} THEN burst.calls = <<>> ELSE burst.calls = <<burst.state>>

C2_Witness ==
    /\ burst.changes = 2
    /\ timers = {}
    /\ burst.calls = <<burst.state>>
    /\ Len(burst.state.nodes) = 2
    /\ last.op = "fire"

\* C3: in both editors, every content edit made while an image read was in
\* flight is still in the local state and in the shared payload when the read
\* has completed, and the image url the read delivered is there too.
C3_EditSurvivesImageRead ==
    (last.op = "readDone" /\ last.mounted)
    => /\ \A e \in last.edits :
              /\ LocalHoldsEdit(editors[last.ref], heap[last.ref], e)
              /\ HoldsEdit(heap[last.ref], e)
       /\ LET image == [ref |-> last.ref, cardId |-> last.cardId, field |-> "imageUrl",
                        value |-> last.result]
          IN  /\ HoldsEdit(heap[last.ref], image)
              /\ IF last.kind = "rich" THEN editors[last.ref].imageUrl = last.result
                 ELSE LocalHoldsEdit(editors[last.ref], heap[last.ref], image)

\* C4: when the page loads after a reset (whose removal of the key succeeded),
\* the persisted key is absent and the editor waits for the sample data.
C4_ResetFallsBackToSample ==
    last.op = "pageLoad" => (last.store = Absent /\ builder = "loading")

\* C5: once enabled is false no write is pending (the pending one was
\* cancelled), no render schedules one, and saveFlowState is not called.
C5_DisabledCancelsAndSuppresses ==
    builder = "loading" => (timers = {} /\ last.op # "fire")

C5_Witness ==
    /\ builder = "loading"
    /\ last.op = "hostRender"
    /\ last.pending
    /\ last.mounted

\* C6: when the editor is unmounted no debounced write stays pending, the
\* unmount writes nothing, and no debounced write runs while it is unmounted.
C6_UnmountCancelsPendingWrite ==
    /\ builder = "unmounted" => timers = {}
    /\ last.op = "switchToView" => localStorage = last.before
    /\ last.op = "fire" => builder # "unmounted"

C6_Witness ==
    /\ last.op = "switchToView"
    /\ last.pending
    /\ builder = "unmounted"

\* C7: an edit made while the persisted key is absent writes nothing (the key
\* stays absent) and is in the local state and in the shared payload; the next
\* debounced write of that editor contains every such edit.
C7_EditWithoutRecord ==
    /\ (last.op \in {"richEdit", "carouselEdit"} /\ last.before = Absent)
       => LET e == [ref |-> last.ref,
                    cardId |-> IF last.op = "richEdit" THEN "" ELSE last.cardId,
                    field |-> last.field, value |-> last.value]
          IN  /\ localStorage = Absent
              /\ LocalHoldsEdit(editors[last.ref], heap[last.ref], e)
              /\ HoldsEdit(heap[last.ref], e)
    /\ (last.op = "fire" /\ ~last.fault)
       => \A e \in last.unsaved :
              \A i \in 1..Len(last.closed.nodes) :
                  last.closed.nodes[i].data = e.ref
                  => HoldsEdit(NodesOf(localStorage)[i].data, e)

C9_LoadNullOnMissingOrCorrupt ==
    (last.op = "load" /\ last.before \in {Absent, Corrupt})
    => /\ last.value = Null
       /\ ~last.threw
       /\ localStorage = last.before

C9_Witness ==
    /\ last.op = "load"
    /\ last.before = Corrupt
    /\ ~last.fault

\* C10: saveFlowState and clearFlowState never throw, and when serialisation
\* or the storage call fails the slot is what it was before the call.
C10_SaveClearNeverThrow ==
    last.op \in {"save", "clear"}
    => /\ ~last.threw
       /\ last.fault => localStorage = last.before

C10_Witness ==
    /\ last.op = "save"
    /\ last.fault
    /\ last.before.kind = "json"
    /\ IsFlowDoc(last.before.doc)
    /\ Len(last.before.doc.nodes) > 0

\* the record fetchInitialData restores from: parsed, of FlowState shape, with a node
Usable(text) ==
    /\ text.kind = "json"
    /\ IsFlowDoc(text.doc)
    /\ Len(text.doc.nodes) > 0

\* C11: when the editor starts on a persisted record with at least one node the
\* in-memory nodes and edges are the persisted ones; on any other content of the
\* key (missing, unparseable, not of FlowState shape, no node) the editor waits
\* for the sample data and its state is then the one built from them.
C11_InitialLoad ==
    /\ last.op = "pageLoad"
       => IF Usable(last.store)
          THEN /\ builder = "ready"
               /\ FlowValue(nodes, edges, heap).nodes = last.store.doc.nodes
               /\ edges = last.store.doc.edges
          ELSE builder = "loading"
    /\ last.op = "sampleLoaded"
       => /\ FlowValue(nodes, edges, heap).nodes = SampleNodes(last.data)
          /\ edges = SampleEdges(last.data, 1)

\* the number of nested cards of the carousels before carousel i
RECURSIVE CardsBefore(_, _)
CardsBefore(cs, i) ==
    IF i <= 1 THEN 0 ELSE CardsBefore(cs, i - 1) + Len(cs[i - 1].cards)

\* C18: the state built from sample data with R rich cards and C carousels has
\* R + C nodes, the top-level cards only, and one edge per (carousel, nested card)
\* in carousel order then card order, with id '<carousel id>-to-<card id>', source
\* the carousel and target the card; 2 rich cards and a carousel of 2 give 3 and 2.
C18_SampleSynthesis ==
    last.op = "sampleLoaded"
    => LET rs == last.data.richCards
           cs == last.data.carouselCards
       IN  /\ Len(nodes) = Len(rs) + Len(cs)
           /\ {nodes[n].id : n \in 1..Len(nodes)} =
                  {rs[i].id : i \in 1..Len(rs)} \cup {cs[i].id : i \in 1..Len(cs)}
           /\ Len(edges) = CardsBefore(cs, Len(cs) + 1)
           /\ \A i \in 1..Len(cs) : \A k \in 1..Len(cs[i].cards) :
                  edges[CardsBefore(cs, i) + k] =
                      [id |-> cs[i].id \o "-to-" \o cs[i].cards[k].id,
                       source |-> cs[i].id,
                       target |-> cs[i].cards[k].id]
           /\ (Len(rs) = 2 /\ Len(cs) = 1 /\ Len(cs[1].cards) = 2)
              => (Len(nodes) = 3 /\ Len(edges) = 2)

C18_Witness ==
    /\ last.op = "sampleLoaded"
    /\ Len(last.data.richCards) = 2
    /\ Len(last.data.carouselCards) = 1
    /\ Len(last.data.carouselCards[1].cards) = 2
    /\ Len(nodes) = 3
    /\ edges = <<[id |-> "c1-to-k1", source |-> "c1", target |-> "k1"],
                 [id |-> "c1-to-k2", source |-> "c1", target |-> "k2"]>>

\* the image a payload and an editor show for the card a read was started for
PayloadImage(data, cardId) ==
    IF cardId = "" THEN Get(data, "imageUrl") ELSE CardImage(data.cards, cardId)

LocalImage(ed, cardId) ==
    IF ed.kind = "rich" THEN ed.imageUrl ELSE CardImage(ed.cards, cardId)

\* C16: while a rich card's image read is in flight the payload's imageUrl is
\* what it was when the upload started, and when the read completes for a rich
\* card whose node is in the persisted record, the data of that persisted node
\* equals the payload (new imageUrl, current title, description and buttons).
C16_RichImageCompletion ==
    /\ \A rd \in reads :
           rd.kind = "rich" => Get(heap[rd.ref], "imageUrl") = rd.image0
    /\ (/\ last.op = "readDone"
        /\ last.kind = "rich"
        /\ last.mounted
        /\ HasNode(last.before, last.id))
       => \A i \in 1..Len(NodesOf(localStorage)) :
              NodesOf(localStorage)[i].id = last.id
              => NodesOf(localStorage)[i].data = PayloadDoc(heap[last.ref])

\* C19: an image read that completes after the editor that started it is gone
\* writes nothing to the persisted record and changes no payload of the flow state.
C19_StaleReadIgnored ==
    (last.op = "readDone" /\ ~last.mounted)
    => /\ localStorage = last.before
       /\ FlowValue(nodes, edges, heap) = last.flow

\* C20: when the file read fails, the payload's imageUrl, the editor's local
\* image state and the persisted record are what they were before the upload.
C20_FailedReadChangesNothing ==
    (last.op = "readDone" /\ last.result = NullString /\ last.mounted)
    => /\ PayloadImage(heap[last.ref], last.cardId) = last.image0
       /\ LocalImage(editors[last.ref], last.cardId) = last.local0
       /\ localStorage = last.before

\* no two addNode calls for the same type got the same millisecond
StampsDistinct ==
    \A i, j \in 1..Len(stamps) : i # j => stamps[i] # stamps[j]

\* C12: as long as no two addNode calls for the same type happened in the same
\* millisecond, the ids of the node sequence are pairwise distinct.
C12_NodeIdsDistinct ==
    StampsDistinct
    => \A i, j \in 1..Len(nodes) : i # j => nodes[i].id # nodes[j].id

C12_Witness ==
    /\ last.op = "addNode"
    /\ StampsDistinct
    /\ Len(nodes) = 4
    /\ \E i, j \in 1..Len(stamps) :
           /\ stamps[i][1] # stamps[j][1]
           /\ stamps[i][2] = stamps[j][2]

\* C13: addNode(type) makes the node sequence the previous one followed by one
\* new node of that type; the existing nodes, their payloads and the edges are
\* what they were.
C13_AddNodeFrame ==
    last.op = "addNode"
    => /\ Len(nodes) = Len(last.shells) + 1
       /\ SubSeq(nodes, 1, Len(last.shells)) = last.shells
       /\ nodes[Len(nodes)].type = last.type
       /\ edges = last.flow.edges
       /\ FlowValue(SubSeq(nodes, 1, Len(last.shells)), edges, heap) = last.flow

C13_Witness ==
    /\ last.op = "addNode"
    /\ last.type = CAROUSEL_CARD
    /\ Len(last.shells) = 3
    /\ Len(edges) = 1
    /\ nodes[4].id = "carouselCard-2"

\* the ids of the nodes of a persisted record, in order
PersistedIds(text) == [i \in 1..Len(NodesOf(text)) |-> NodesOf(text)[i].id]

\* C17: addCard puts exactly one new card at the end of the carousel's cards, in
\* the local state and in the shared payload, leaves the cards before it as they
\* were, and changes neither the nodes (number, ids, order) nor the edges of the
\* flow state or of the persisted record.
C17_AddCardFrame ==
    last.op = "addCard"
    => LET local == editors[last.ref].cards
           shared == heap[last.ref].cards
       IN  /\ Len(local) = Len(last.cards) + 1
           /\ SubSeq(local, 1, Len(last.cards)) = last.cards
           /\ local[Len(local)].id = "rich-card-" \o ToString(last.now)
           /\ Len(shared) = Len(last.payload) + 1
           /\ SubSeq(shared, 1, Len(last.payload)) = last.payload
           /\ shared[Len(shared)] = local[Len(local)]
           /\ nodes = last.shells
           /\ edges = last.edges
           /\ PersistedIds(localStorage) = PersistedIds(last.before)
           /\ localStorage.kind = last.before.kind
           /\ Usable(last.before) => localStorage.doc.edges = last.before.doc.edges

C17_Witness ==
    /\ last.op = "addCard"
    /\ Usable(last.before)
    /\ Len(last.cards) = 2
    /\ Len(editors[last.ref].cards) = 3
    /\ localStorage # last.before

\* the cards a carousel edit has to produce from the cards it found
ExpectedCards(cards, cardId, actionId, field, value) ==
    [k \in 1..Len(cards) |->
        IF cards[k].id # cardId THEN cards[k]
        ELSE IF field = "title" THEN [cards[k] EXCEPT !.title = value]
        ELSE IF field = "description" THEN [cards[k] EXCEPT !.description = value]
        ELSE [cards[k] EXCEPT !.buttons =
                 [b \in 1..Len(cards[k].buttons) |->
                     IF cards[k].buttons[b].id # actionId THEN cards[k].buttons[b]
                     ELSE IF field = "actionTitle"
                     THEN [cards[k].buttons[b] EXCEPT !.title = value]
                     ELSE [cards[k].buttons[b] EXCEPT !.label = value]]]]

C15_RichAddActionReachesAllThree ==
    (last.op = "richAddAction" /\ HasNode(last.before, last.id))
    => LET Extended(buttons) ==
               /\ Len(buttons) = Len(last.actions) + 1
               /\ SubSeq(buttons, 1, Len(last.actions)) = last.actions
               /\ buttons[Len(buttons)].id = "action-" \o ToString(last.now)
               /\ buttons[Len(buttons)].label =
                      "Action " \o ToString(Len(last.actions) + 1)
       IN  /\ Extended(editors[last.ref].actions)
           /\ Extended(heap[last.ref].buttons)
           /\ \A i \in 1..Len(NodesOf(localStorage)) :
                  NodesOf(localStorage)[i].id = last.id
                  => Extended(NodesOf(localStorage)[i].data.buttons)

\* the ids of the nodes in the node sequence
NodeIds(ns) == {ns[i].id : i \in 1..Len(ns)}

\* C22: in every flow state the editor shows (synthesized from the sample data or
\* loaded from the persisted record) the source and the target of every edge are
\* ids of nodes of the node sequence.
C22_EdgesReferenceNodes ==
    builder = "ready"
    => \A e \in 1..Len(edges) :
           /\ edges[e].source \in NodeIds(nodes)
           /\ edges[e].target \in NodeIds(nodes)

\* localStorage.setItem is reached by a direct patch made on this record
PatchWrites(text) == text.kind = "json" /\ IsFlowDoc(text.doc)

\* C23: while the application is in View mode no operation of the user other than
\* the reset writes, patches or removes the persisted record.
C23_ViewModeIsReadOnly ==
    (~isEditMode /\ last.op \in {"richEdit", "carouselEdit"})
    => (localStorage = last.before /\ ~PatchWrites(last.before))

Without(obj, k) == [j \in (DOMAIN obj) \ {k} |-> obj[j]]

\* C25: a direct patch of a node component changes at most the data of the
\* persisted nodes whose id is the component's node id: the edges, the number and
\* order of the nodes, the id, type and position of every node and the data of
\* every other node stay as they were, and when no persisted node has that id the
\* persisted content is unchanged.
C25_DirectPatchFrame ==
    (last.op \in {"richEdit", "carouselEdit", "addCard"})
    => IF ~PatchWrites(last.before) THEN localStorage = last.before
       ELSE /\ localStorage.kind = "json"
            /\ Without(localStorage.doc, "nodes") = Without(last.before.doc, "nodes")
            /\ Len(NodesOf(localStorage)) = Len(NodesOf(last.before))
            /\ \A i \in 1..Len(NodesOf(last.before)) :
                   LET x == NodesOf(last.before)[i]
                       y == NodesOf(localStorage)[i]
                   IN  /\ Without(y, "data") = Without(x, "data")
                       /\ x.id # last.id => y = x
            /\ ~HasNode(last.before, last.id) => localStorage = last.before

C25_Witness ==
    /\ last.op \in {"richEdit", "carouselEdit", "addCard"}
    /\ HasNode(last.before, last.id)
    /\ Len(NodesOf(last.before)) > 1
    /\ localStorage # last.before
    /\ stamps # <<>>

\* the edit an operation record of a content edit describes
EditOf(l) ==
    [ref |-> l.ref, cardId |-> IF l.op = "richEdit" THEN "" ELSE l.cardId,
     field |-> l.field, value |-> l.value]

\* C26: a content edit of a card made while a debounced write is pending leaves
\* the pending timer as it is (no reschedule), and when that timer fires next the
\* record it writes holds the edited value: the payload is serialized as it is
\* when the timer fires.
C26_EditRidesPendingWrite ==
    [][/\ (last'.op \in {"richEdit", "carouselEdit"} /\ last' # last)
          => (timers' = timers /\ timeoutRef' = timeoutRef)
       /\ (last.op \in {"richEdit", "carouselEdit"} /\ last'.op = "fire" /\ ~last'.fault)
          => /\ HasNode(localStorage', last.id)
             /\ \A i \in 1..Len(NodesOf(localStorage')) :
                    NodesOf(localStorage')[i].id = last.id
                    => HoldsEdit(NodesOf(localStorage')[i].data, EditOf(last))]_vars

C26_Witness ==
    /\ last.op = "fire"
    /\ ~last.fault
    /\ builder = "ready"
    /\ last.before = Absent
    /\ \E e \in last.unsaved :
           \E i \in 1..Len(last.closed.nodes) :
               /\ last.closed.nodes[i].data = e.ref
               /\ e.value = "a"
               /\ HoldsEdit(NodesOf(localStorage)[i].data, e)

\* C27: immediately after a successful debounced write the persisted record is
\* the serialization of the current in-memory flow state, all nodes with their
\* positions and payloads and all edges, whatever the record held before.
C27_WriteIsFullOverwrite ==
    (last.op = "fire" /\ ~last.fault)
    => localStorage = JSONstringify(FlowValue(nodes, edges, heap))

C27_Witness ==
    /\ last.op = "fire"
    /\ ~last.fault
    /\ builder = "ready"
    /\ PatchWrites(last.before)
    /\ Len(NodesOf(last.before)) = Len(nodes)
    /\ \E i \in 1..Len(nodes) :
           NodesOf(last.before)[i].data # NodesOf(localStorage)[i].data
    /\ localStorage = JSONstringify(FlowValue(nodes, edges, heap))

\* C28: while the initial load is in progress (isLoading) no debounced write is
\* scheduled and none is executed.
C28_NoAutosaveWhileLoading ==
    builder = "loading"
    => (timers = {} /\ effect # "armed" /\ last.op # "fire")

C28_Witness ==
    /\ builder = "loading"
    /\ last.op = "switchToEdit"
    /\ last.prev.op = "switchToView"
    /\ last.prev.pending
    /\ timers = {}

\* the nodes without their payloads, and the edges, of a persisted record
Structure(text) ==
    [nodes |-> [i \in 1..Len(NodesOf(text)) |-> Without(NodesOf(text)[i], "data")],
     edges |-> IF text.kind = "json" /\ "edges" \in DOMAIN text.doc THEN text.doc.edges
               ELSE <<>>]

\* C29: when the editor is mounted again after View and the persisted record has
\* at least one node, the in-memory flow state is the persisted record as it is
\* at that moment; changes of the node sequence that were not yet written when
\* the editor left are absent.
C29_RemountRestoresRecord ==
    (last.op = "switchToEdit" /\ Len(NodesOf(last.before)) > 0)
    => /\ builder = "ready"
       /\ localStorage = last.before
       /\ JSONstringify(FlowValue(nodes, edges, heap)) = localStorage
       /\ (/\ last.prev.op = "switchToView"
           /\ Structure(JSONstringify(last.prev.flow)) # Structure(last.prev.before))
          => Structure(JSONstringify(FlowValue(nodes, edges, heap)))
                 # Structure(JSONstringify(last.prev.flow))

C29_Witness ==
    /\ last.op = "switchToEdit"
    /\ Len(NodesOf(last.before)) > 0
    /\ builder = "ready"
    /\ last.prev.op = "switchToView"
    /\ last.prev.pending
    /\ Structure(JSONstringify(last.prev.flow)) # Structure(last.prev.before)
    /\ JSONstringify(FlowValue(nodes, edges, heap)) = localStorage

\* cardData.cards || [] of a carousel payload
PayloadCards(cardData) == IF "cards" \in DOMAIN cardData THEN cardData.cards ELSE <<>>

\* C30: after every operation of a carousel editor, in any order and with image
\* reads completing at any moment, the editor's local cards and the cards of the
\* shared payload are the same sequence.
C30_CarouselLocalEqualsShared ==
    \A ref \in DOMAIN editors :
        editors[ref].kind = "carousel"
        => editors[ref].cards = PayloadCards(heap[ref])

C30_Witness ==
    /\ last.op = "readDone"
    /\ last.kind = "carousel"
    /\ last.mounted
    /\ last.result = "data:img"
    /\ last.edits # {}
    /\ Len(editors[last.ref].cards) > 1
    /\ editors[last.ref].cards = PayloadCards(heap[last.ref])
    /\ CardImage(editors[last.ref].cards, last.cardId) = "data:img"

====
